---- MODULE Spec2Model ----
(***************************************************************************)
(* A model of the stack VM of src/VMState/vm.py (class VMState) and of its *)
(* caller test_vm in src/main.py.                                          *)
(*                                                                         *)
(* Python values are tagged records: an int n is [tag |-> "int", val |-> n],*)
(* None is [tag |-> "None", val |-> 0].  A str is the sequence of its      *)
(* characters (program text, one-character strings) or of its code points  *)
(* (vm_output, stdout).  An exception is the name of its class.            *)
(***************************************************************************)
EXTENDS Integers, Sequences, FiniteSets, TLC

VARIABLES
    pc,                  \* self.pc
    next_op_id,          \* self.next_op_id
    stack,               \* self.stack (LifoQueue; the top is the last element)
    instruction_ids,     \* self.instruction_ids: name -> op id
    instruction_actions, \* self.instruction_actions: op id -> handler
    vm_output,           \* self.vm_output
    stdout,              \* what print() wrote (PRINT's side channel)
    call,                \* where the caller is: "start", "assembled" (holds code), "failed"
                         \* (assemble raised), "running" (inside run), "done" (run ended)
    text,                \* program_str: the program text the caller assembles
    asm,                 \* what the last assemble call produced: the list returned or the exception
    asm_prev,            \* what the assemble call before that one produced
    asm_calls,           \* assemble calls made so far
    code,                \* run's parameter: the list being executed
    exc,                 \* class of the exception run raised, or "none"
    ret,                 \* the tuple run returned, or <<>>
    steps,               \* loop iterations of run executed so far
    fetched,             \* the last loop iteration of run: the pc and engine state it started in,
                         \* and the handler and argument it fetched (op "none": it raised before that)
    written,             \* the WRITE / WRITE_CHAR instructions executed, in order, with the top each saw
    run_calls,           \* run calls made so far on this instance
    left                 \* pc, stack and vm_output as the previous run call left them

vars == <<pc, next_op_id, stack, instruction_ids, instruction_actions, vm_output,
          stdout, call, text, asm, asm_prev, asm_calls, code, exc, ret, steps, fetched, written,
          run_calls, left>>

vm_vars == <<pc, next_op_id, stack, instruction_ids, instruction_actions, vm_output, stdout>>

----------------------------------------------------------------------------
(* Bounds of the model *)

\* lines per generated program text
MaxLines == 3
\* loop iterations of one run call that the model follows
MaxSteps == 8
\* lines per generated program text that may hold a malformed line
MaxAsmLines == 2
\* assemble calls of one caller that the model follows
MaxAsmCalls == 2
\* run calls of one caller that the model follows
MaxRunCalls == 2

----------------------------------------------------------------------------
(* Python values *)

None == [tag |-> "None", val |-> 0]
IntV(n) == [tag |-> "int", val |-> n]
IsInt(v) == v.tag = "int"

\* Python truthiness of an int or None: `not v`
Falsy(v) == v = None \/ v = IntV(0)

\* Python's // on ints (floor division), b // a with a # 0
FloorDiv(b, a) ==
    LET q == (IF b < 0 THEN -b ELSE b) \div (IF a < 0 THEN -a ELSE a)
        r == (IF b < 0 THEN -b ELSE b) % (IF a < 0 THEN -a ELSE a)
    IN  IF (b < 0) = (a < 0) THEN q
        ELSE IF r = 0 THEN -q ELSE -q - 1

----------------------------------------------------------------------------
(* Strings *)

Digits == <<"0", "1", "2", "3", "4", "5", "6", "7", "8", "9">>
DigitChars == {Digits[i] : i \in 1..10}
DigitVal(c) == (CHOOSE i \in 1..10 : Digits[i] = c) - 1

SP == " "
NL == "\n"

\* str.split(sep) for a one-character separator: never empty, keeps empty parts
RECURSIVE split(_, _)
split(s, sep) ==
    IF \A i \in 1..Len(s) : s[i] # sep
    THEN <<s>>
    ELSE LET k == CHOOSE i \in 1..Len(s) : s[i] = sep /\ \A j \in 1..(i-1) : s[j] # sep
         IN  <<SubSeq(s, 1, k - 1)>> \o split(SubSeq(s, k + 1, Len(s)), sep)

\* filter(None, parts): drops the empty strings only
filter_None(parts) == SelectSeq(parts, LAMBDA p : Len(p) > 0)

\* int(tok) of a token without whitespace or underscores: [sign] digit+
int_body(tok) == IF Len(tok) > 0 /\ tok[1] \in {"-", "+"} THEN Tail(tok) ELSE tok
int_ok(tok) == Len(int_body(tok)) > 0 /\ \A i \in 1..Len(int_body(tok)) : int_body(tok)[i] \in DigitChars
RECURSIVE digits_value(_)
digits_value(ds) ==
    IF Len(ds) = 0 THEN 0
    ELSE 10 * digits_value(SubSeq(ds, 1, Len(ds) - 1)) + DigitVal(ds[Len(ds)])
int_value(tok) ==
    IF Len(tok) > 0 /\ tok[1] = "-" THEN - digits_value(int_body(tok)) ELSE digits_value(int_body(tok))

\* code points of the characters str() and chr() produce
ORD_MINUS == 45
ORD_ZERO == 48
MAX_CODE_POINT == 1114111
NoneText == <<78, 111, 110, 101>>

RECURSIVE nat_digits(_)
nat_digits(n) ==
    IF n < 10 THEN <<ORD_ZERO + n>> ELSE Append(nat_digits(n \div 10), ORD_ZERO + (n % 10))

\* str(v) of an int or None, as code points
str(v) ==
    IF v = None THEN NoneText
    ELSE IF v.val < 0 THEN <<ORD_MINUS>> \o nat_digits(-v.val) ELSE nat_digits(v.val)

\* chr(v): the exception it raises, or "none"
chr_exc(v) ==
    IF ~IsInt(v) THEN "TypeError"
    ELSE IF v.val < 0 \/ v.val > MAX_CODE_POINT THEN "ValueError" ELSE "none"
chr(v) == <<v.val>>

----------------------------------------------------------------------------
(* The instruction registry: create_vm and register_instruction *)

PRINT == <<"P", "R", "I", "N", "T">>
LOAD_CONST == <<"L", "O", "A", "D", "_", "C", "O", "N", "S", "T">>
ADD == <<"A", "D", "D">>
EXIT == <<"E", "X", "I", "T">>
POP == <<"P", "O", "P">>
DIV == <<"D", "I", "V">>
EQ == <<"E", "Q">>
NEQ == <<"N", "E", "Q">>
DUP == <<"D", "U", "P">>
JMP == <<"J", "M", "P">>
JMPZ == <<"J", "M", "P", "Z">>
WRITE == <<"W", "R", "I", "T", "E">>
WRITE_CHAR == <<"W", "R", "I", "T", "E", "_", "C", "H", "A", "R">>

\* the register_instruction calls of create_vm, in order
Registrations ==
    << <<PRINT, "vm_print">>, <<LOAD_CONST, "vm_load_const">>, <<ADD, "vm_add">>,
       <<EXIT, "vm_exit">>, <<POP, "vm_pop">>, <<DIV, "vm_div">>, <<EQ, "vm_eq">>,
       <<NEQ, "vm_neq">>, <<DUP, "vm_dup">>, <<JMP, "vm_jmp">>, <<JMPZ, "vm_jmpz">>,
       <<WRITE, "vm_write">>, <<WRITE_CHAR, "vm_write_char">> >>

\* the registry fields as __init__ sets them before create_vm
EmptyRegistry == [ids |-> <<>>, actions |-> <<>>, next |-> 0]

\* register_instruction without its `self.next_op_id += 1`
register_instruction_same_id(r, name, action) ==
    [ids |-> (name :> r.next) @@ r.ids,
     actions |-> (r.next :> action) @@ r.actions,
     next |-> r.next]

register_instruction(r, name, action) ==
    [ids |-> (name :> r.next) @@ r.ids,
     actions |-> (r.next :> action) @@ r.actions,
     next |-> r.next + 1]

RECURSIVE register_all(_, _)
register_all(r, regs) ==
    IF Len(regs) = 0 THEN r
    ELSE register_all(register_instruction(r, Head(regs)[1], Head(regs)[2]), Tail(regs))

create_vm == register_all(EmptyRegistry, Registrations)

----------------------------------------------------------------------------
(* assemble *)

\* what a call produces: the value returned, or the exception raised
Returned(v) == [exc |-> "none", val |-> v]
Raised(e) == [exc |-> e, val |-> <<>>]

\* one pass of assemble's loop body over the line `line`, `acc` being code so far
assemble_line(ids, line, acc) ==
    LET words == split(line, SP)
    IN  IF Len(words) >= 3 THEN Raised("InvalidInstruction")
        ELSE IF words[1] \notin DOMAIN ids THEN Raised("InvalidInstruction")
        ELSE IF Len(words) = 2
             THEN IF int_ok(words[2])
                  THEN Returned(Append(acc, <<ids[words[1]], IntV(int_value(words[2]))>>))
                  ELSE Raised("ValueError")
             ELSE Returned(Append(acc, <<ids[words[1]], None>>))

RECURSIVE assemble_loop(_, _, _)
assemble_loop(ids, lines, acc) ==
    IF Len(lines) = 0 THEN Returned(acc)
    ELSE LET r == assemble_line(ids, Head(lines), acc)
         IN  IF r.exc # "none" THEN r ELSE assemble_loop(ids, Tail(lines), r.val)

\* assemble with its list kept from call to call instead of starting at []
assemble_keeps_code(ids, input_code) ==
    assemble_loop(ids, filter_None(split(input_code, NL)), asm.val)

assemble(ids, input_code) == assemble_loop(ids, filter_None(split(input_code, NL)), <<>>)

----------------------------------------------------------------------------
(* Program texts the caller may hand in *)

RECURSIVE join(_, _)
join(parts, sep) ==
    IF Len(parts) = 0 THEN <<>>
    ELSE IF Len(parts) = 1 THEN parts[1]
    ELSE parts[1] \o <<sep>> \o join(Tail(parts), sep)

WithArg(name, tok) == name \o <<SP>> \o tok

\* lines of well-formed programs: every mnemonic bare, and the three that read
\* their argument with arguments that matter (zero, positive, negative; a jump
\* back, forward and out of the program)
RunLines ==
    {Registrations[i][1] : i \in 1..Len(Registrations)}
    \cup {WithArg(LOAD_CONST, t) : t \in {<<"0">>, <<"2">>, <<"-", "3">>}}
    \cup {WithArg(JMP, t) : t \in {<<"-", "1">>, <<"0">>, <<"3">>}}
    \cup {WithArg(JMPZ, t) : t \in {<<"0">>, <<"3">>}}

\* lines the assembler has to judge: blank, unknown, too many tokens, bad argument
AsmLines ==
    { <<>>, <<SP>>, <<SP, SP>>,
      <<"F", "O", "O">>,
      <<SP>> \o ADD,
      WithArg(WithArg(ADD, <<"1">>), <<"2">>),
      LOAD_CONST \o <<SP, SP>> \o <<"2">>,
      WithArg(LOAD_CONST, <<"x">>),
      WithArg(LOAD_CONST, <<>>),
      WithArg(LOAD_CONST, <<"+", "7">>),
      WithArg(ADD, <<"7">>),
      WithArg(LOAD_CONST, <<"2">>),
      ADD, EXIT }

TextsOver(lines, n) == UNION {{join(ls, NL) : ls \in [1..k -> lines]} : k \in 0..n}

\* program and program2 of main.py
program ==
    join(<<WithArg(LOAD_CONST, <<"4", "3", "2">>), WithArg(LOAD_CONST, <<"9", "0", "5">>),
           ADD, PRINT, WithArg(LOAD_CONST, <<"6", "5">>), WRITE_CHAR, EXIT, <<>> >>, NL)
program2 ==
    join(<<WithArg(LOAD_CONST, <<"1", "0", "0">>), WithArg(LOAD_CONST, <<"0">>), DIV, EXIT>>, NL)

\* the text t with a push in front of it
Pushed(t) == WithArg(LOAD_CONST, <<"2">>) \o <<NL>> \o t

Texts ==
    TextsOver(RunLines, MaxLines)
    \cup {Pushed(t) : t \in TextsOver(RunLines, MaxLines)}
    \cup TextsOver(AsmLines, MaxAsmLines)
    \cup {program, program2}


----------------------------------------------------------------------------
(* The handlers.  A handler maps the engine state s = [pc, stack, vm_output, *)
(* stdout, status, exc] it is called in (pc already incremented by run) and *)
(* its argument to the state it leaves: status is its return value, exc the *)
(* exception it raised ("none" when it returned).                           *)

Top(st) == st[Len(st)]
Pop(st) == SubSeq(st, 1, Len(st) - 1)

raise(s, e) == [s EXCEPT !.exc = e]

\* the wrapper's test: TRUE when it raises VMStackFail instead of calling func
check_argument_length(s, n) == Len(s.stack) < n

vm_print(s, arg) ==
    IF check_argument_length(s, 1) THEN raise(s, "VMStackFail")
    ELSE [s EXCEPT !.stdout = @ \o str(Top(s.stack)) \o <<10>>]

\* vm_load_const behind the decorator's default depth test
vm_load_const_checked(s, arg) ==
    IF check_argument_length(s, 1) THEN raise(s, "VMStackFail")
    ELSE [s EXCEPT !.stack = Append(@, arg)]

vm_load_const(s, arg) == [s EXCEPT !.stack = Append(@, arg)]

vm_add(s, arg) ==
    IF check_argument_length(s, 2) THEN raise(s, "VMStackFail")
    ELSE LET tos == Top(s.stack)
             tos_1 == Top(Pop(s.stack))
             rest == Pop(Pop(s.stack))
         IN  IF IsInt(tos) /\ IsInt(tos_1)
             THEN [s EXCEPT !.stack = Append(rest, IntV(tos.val + tos_1.val))]
             ELSE [s EXCEPT !.stack = rest, !.exc = "TypeError"]

\* vm_exit without its decorator
vm_exit_unchecked(s, arg) == [s EXCEPT !.status = FALSE]

vm_exit(s, arg) ==
    IF check_argument_length(s, 1) THEN raise(s, "VMStackFail")
    ELSE [s EXCEPT !.status = FALSE]

\* vm_pop returning False
vm_pop_stops(s, arg) ==
    IF check_argument_length(s, 1) THEN raise(s, "VMStackFail")
    ELSE [s EXCEPT !.stack = Pop(@), !.status = FALSE]

vm_pop(s, arg) ==
    IF check_argument_length(s, 1) THEN raise(s, "VMStackFail")
    ELSE [s EXCEPT !.stack = Pop(@)]

\* vm_div testing the divisor before it takes the operands off the stack
vm_div_rolls_back(s, arg) ==
    IF check_argument_length(s, 2) THEN raise(s, "VMStackFail")
    ELSE LET tos == Top(s.stack)
             tos_1 == Top(Pop(s.stack))
             rest == Pop(Pop(s.stack))
         IN  IF tos = IntV(0) THEN raise(s, "DivByZero")
             ELSE IF IsInt(tos) /\ IsInt(tos_1)
             THEN [s EXCEPT !.stack = Append(rest, IntV(FloorDiv(tos_1.val, tos.val)))]
             ELSE [s EXCEPT !.stack = rest, !.exc = "TypeError"]

vm_div(s, arg) ==
    IF check_argument_length(s, 2) THEN raise(s, "VMStackFail")
    ELSE LET tos == Top(s.stack)
             tos_1 == Top(Pop(s.stack))
             rest == Pop(Pop(s.stack))
         IN  IF tos = IntV(0) THEN [s EXCEPT !.stack = rest, !.exc = "DivByZero"]
             ELSE IF IsInt(tos) /\ IsInt(tos_1)
             THEN [s EXCEPT !.stack = Append(rest, IntV(FloorDiv(tos_1.val, tos.val)))]
             ELSE [s EXCEPT !.stack = rest, !.exc = "TypeError"]

vm_eq(s, arg) ==
    IF check_argument_length(s, 2) THEN raise(s, "VMStackFail")
    ELSE [s EXCEPT !.stack = Append(Pop(Pop(@)),
                                    IF Top(@) = Top(Pop(@)) THEN IntV(1) ELSE IntV(0))]

\* vm_neq with the branches of its conditional the other way round
vm_neq_as_eq(s, arg) ==
    IF check_argument_length(s, 2) THEN raise(s, "VMStackFail")
    ELSE [s EXCEPT !.stack = Append(Pop(Pop(@)),
                                    IF Top(@) = Top(Pop(@)) THEN IntV(1) ELSE IntV(0))]

vm_neq(s, arg) ==
    IF check_argument_length(s, 2) THEN raise(s, "VMStackFail")
    ELSE [s EXCEPT !.stack = Append(Pop(Pop(@)),
                                    IF Top(@) = Top(Pop(@)) THEN IntV(0) ELSE IntV(1))]

vm_dup(s, arg) ==
    IF check_argument_length(s, 1) THEN raise(s, "VMStackFail")
    ELSE [s EXCEPT !.stack = Append(@, Top(@))]

\* vm_jmp setting pc back to the jump itself
vm_jmp_stays(s, arg) == [s EXCEPT !.pc = IntV(@.val - 1)]

vm_jmp(s, arg) == [s EXCEPT !.pc = arg]

vm_jmpz(s, arg) ==
    IF check_argument_length(s, 1) THEN raise(s, "VMStackFail")
    ELSE IF Falsy(Top(s.stack)) THEN [s EXCEPT !.stack = Pop(@), !.pc = arg]
    ELSE s

\* vm_write without its decorator: queue[-1] of an empty stack is an IndexError
vm_write_unchecked(s, arg) ==
    IF Len(s.stack) = 0 THEN raise(s, "IndexError")
    ELSE [s EXCEPT !.vm_output = @ \o str(Top(s.stack))]

vm_write(s, arg) ==
    IF check_argument_length(s, 1) THEN raise(s, "VMStackFail")
    ELSE [s EXCEPT !.vm_output = @ \o str(Top(s.stack))]

vm_write_char(s, arg) ==
    IF check_argument_length(s, 1) THEN raise(s, "VMStackFail")
    ELSE IF chr_exc(Top(s.stack)) # "none" THEN raise(s, chr_exc(Top(s.stack)))
    ELSE [s EXCEPT !.vm_output = @ \o chr(Top(s.stack))]

\* calling the bound method registered under the name h
Handler(h, s, arg) ==
    CASE h = "vm_print" -> vm_print(s, arg)
      [] h = "vm_load_const" -> vm_load_const(s, arg)
      [] h = "vm_add" -> vm_add(s, arg)
      [] h = "vm_exit" -> vm_exit(s, arg)
      [] h = "vm_pop" -> vm_pop(s, arg)
      [] h = "vm_div" -> vm_div(s, arg)
      [] h = "vm_eq" -> vm_eq(s, arg)
      [] h = "vm_neq" -> vm_neq(s, arg)
      [] h = "vm_dup" -> vm_dup(s, arg)
      [] h = "vm_jmp" -> vm_jmp(s, arg)
      [] h = "vm_jmpz" -> vm_jmpz(s, arg)
      [] h = "vm_write" -> vm_write(s, arg)
      [] h = "vm_write_char" -> vm_write_char(s, arg)

----------------------------------------------------------------------------
(* run *)

\* the loop's first statement: the exception `self.pc < 0 or self.pc >= len(code)`
\* ends in, or "none" when the fetch goes ahead
pc_check(p, c) ==
    IF ~IsInt(p) THEN "TypeError"
    ELSE IF p.val < 0 \/ p.val >= Len(c) THEN "VMSegfault"
    ELSE "none"

\* code[self.pc]
Fetch(p, c) == c[p.val + 1]

\* run's return statement, reached when a handler returned a falsy status
run_return(st, out) ==
    IF Len(st) = 0 THEN Raised("IndexError") ELSE Returned(<<Top(st), out>>)

NoFetch == [idx |-> None, op |-> "none", arg |-> None, stack |-> <<>>, vm_output |-> <<>>,
            stdout |-> <<>>]


----------------------------------------------------------------------------
(* The state machine: VMState() has been constructed, its caller assembles   *)
(* program_str and runs the code, as test_vm does, and may assemble the text *)
(* again once that has ended.                                                *)

Init ==
    /\ pc = IntV(0)
    /\ next_op_id = create_vm.next
    /\ stack = <<>>
    /\ instruction_ids = create_vm.ids
    /\ instruction_actions = create_vm.actions
    /\ vm_output = <<>>
    /\ stdout = <<>>
    /\ call = "start"
    /\ text = <<>>
    /\ asm = Returned(<<>>)
    /\ asm_prev = Returned(<<>>)
    /\ asm_calls = 0
    /\ code = <<>>
    /\ exc = "none"
    /\ ret = <<>>
    /\ steps = 0
    /\ fetched = NoFetch
    /\ written = <<>>
    /\ run_calls = 0
    /\ left = [pc |-> IntV(0), stack |-> <<>>, vm_output |-> <<>>]

\* code = vm_state.assemble(program_str)
AssembleCall ==
    /\ call = "start"
    /\ \E t \in Texts :
         /\ text' = t
         /\ asm' = assemble(instruction_ids, t)
    /\ asm_prev' = asm
    /\ asm_calls' = 1
    /\ call' = IF asm'.exc = "none" THEN "assembled" ELSE "failed"
    /\ UNCHANGED <<vm_vars, code, exc, ret, steps, fetched, written, run_calls, left>>

\* vm_state.assemble(program_str) once more on the same instance, after the
\* first assemble raised or after run has ended
AssembleAgain ==
    /\ call \in {"failed", "done"}
    /\ asm_calls < MaxAsmCalls
    /\ asm' = assemble(instruction_ids, text)
    /\ asm_prev' = asm
    /\ asm_calls' = asm_calls + 1
    /\ UNCHANGED <<vm_vars, call, text, code, exc, ret, steps, fetched, written, run_calls,
                   left>>

\* vm_state.run(code): control enters the loop
RunCall ==
    /\ call = "assembled"
    /\ call' = "running"
    /\ code' = asm.val
    /\ run_calls' = 1
    /\ UNCHANGED <<vm_vars, text, asm, asm_prev, asm_calls, exc, ret, steps, fetched, written,
                   left>>

\* the programs a caller hands to a second run call: the one it ran, or the
\* code of main.py's program
SecondPrograms == {code, assemble(instruction_ids, program).val}

\* vm_state.run(c) once more on the same instance, after run has returned or
\* raised: nothing of the engine is reset on the way in
RunAgain ==
    /\ call = "done"
    /\ run_calls < MaxRunCalls
    /\ \E c \in SecondPrograms : code' = c
    /\ call' = "running"
    /\ run_calls' = run_calls + 1
    /\ left' = [pc |-> pc, stack |-> stack, vm_output |-> vm_output]
    /\ exc' = "none"
    /\ ret' = <<>>
    /\ steps' = 0
    /\ fetched' = NoFetch
    /\ UNCHANGED <<vm_vars, text, asm, asm_prev, asm_calls, written>>

\* a loop iteration that raises before any handler is called: the pc test fails
\* (VMSegfault, or TypeError for a pc that is None), or the op id has no handler
RunFault ==
    /\ call = "running"
    /\ IF pc_check(pc, code) # "none"
       THEN /\ exc' = pc_check(pc, code)
            /\ pc' = pc
       ELSE /\ Fetch(pc, code)[1] \notin DOMAIN instruction_actions
            /\ exc' = "KeyError"
            /\ pc' = IntV(pc.val + 1)
    /\ call' = "done"
    /\ fetched' = [idx |-> pc, op |-> "none", arg |-> None, stack |-> stack,
                   vm_output |-> vm_output, stdout |-> stdout]
    /\ UNCHANGED <<next_op_id, stack, instruction_ids, instruction_actions, vm_output, stdout,
                   text, asm, asm_prev, asm_calls, code, ret, steps, written, run_calls, left>>

\* a loop iteration that fetches an instruction bound to handler h: the fetch,
\* pc += 1, the handler, and what run does with its status
Step(h) ==
    /\ call = "running"
    /\ steps < MaxSteps
    /\ pc_check(pc, code) = "none"
    /\ Fetch(pc, code)[1] \in DOMAIN instruction_actions
    /\ instruction_actions[Fetch(pc, code)[1]] = h
    /\ LET arg == Fetch(pc, code)[2]
           s0 == [pc |-> IntV(pc.val + 1), stack |-> stack, vm_output |-> vm_output,
                  stdout |-> stdout, status |-> TRUE, exc |-> "none"]
           r == Handler(h, s0, arg)
           goes_on == r.exc = "none" /\ r.status
           out == IF r.exc # "none" THEN Raised(r.exc) ELSE run_return(r.stack, r.vm_output)
       IN  /\ pc' = r.pc
           /\ stack' = r.stack
           /\ vm_output' = r.vm_output
           /\ stdout' = r.stdout
           /\ call' = IF goes_on THEN "running" ELSE "done"
           /\ exc' = IF goes_on THEN exc ELSE out.exc
           /\ ret' = IF goes_on THEN ret ELSE out.val
           /\ fetched' = [idx |-> pc, op |-> h, arg |-> arg, stack |-> stack,
                          vm_output |-> vm_output, stdout |-> stdout]
           /\ written' = IF h \in {"vm_write", "vm_write_char"} /\ r.exc = "none"
                         THEN Append(written, [op |-> h, top |-> Top(stack)])
                         ELSE written
    /\ steps' = steps + 1
    /\ UNCHANGED <<next_op_id, instruction_ids, instruction_actions, text, asm, asm_prev,
                   asm_calls, code, run_calls, left>>

Do_PRINT == call = "running" /\ Step("vm_print")
Do_LOAD_CONST == call = "running" /\ Step("vm_load_const")
Do_ADD == call = "running" /\ Step("vm_add")
Do_EXIT == call = "running" /\ Step("vm_exit")
Do_POP == call = "running" /\ Step("vm_pop")
Do_DIV == call = "running" /\ Step("vm_div")
Do_EQ == call = "running" /\ Step("vm_eq")
Do_NEQ == call = "running" /\ Step("vm_neq")
Do_DUP == call = "running" /\ Step("vm_dup")
Do_JMP == call = "running" /\ Step("vm_jmp")
Do_JMPZ == call = "running" /\ Step("vm_jmpz")
Do_WRITE == call = "running" /\ Step("vm_write")
Do_WRITE_CHAR == call = "running" /\ Step("vm_write_char")

Next ==
    \/ AssembleCall
    \/ AssembleAgain
    \/ RunCall
    \/ RunAgain
    \/ RunFault
    \/ Do_PRINT
    \/ Do_LOAD_CONST
    \/ Do_ADD
    \/ Do_EXIT
    \/ Do_POP
    \/ Do_DIV
    \/ Do_EQ
    \/ Do_NEQ
    \/ Do_DUP
    \/ Do_JMP
    \/ Do_JMPZ
    \/ Do_WRITE
    \/ Do_WRITE_CHAR

Spec == Init /\ [][Next]_vars


----------------------------------------------------------------------------
(* Vocabulary of the properties *)

\* run has returned to its caller
RunReturned == call = "done" /\ exc = "none"
\* run has raised e
RunRaised(e) == call = "done" /\ exc = e
\* the last loop iteration called handler h on a stack of depth at least n
Ran(h, n) == fetched.op = h /\ Len(fetched.stack) >= n
\* the same with every stack value an int
RanOnInts(h, n) == Ran(h, n) /\ \A i \in 1..Len(fetched.stack) : IsInt(fetched.stack[i])
\* the engine state the handler of the last loop iteration was called in
Before ==
    [pc |-> IntV(fetched.idx.val + 1), stack |-> fetched.stack,
     vm_output |-> fetched.vm_output, stdout |-> fetched.stdout,
     status |-> TRUE, exc |-> "none"]
\* the non-empty lines of the assembled text and the tokens of a line
TextLines == filter_None(split(text, NL))
Words(line) == split(line, SP)
Mnemonics == {Registrations[i][1] : i \in 1..Len(Registrations)}

----------------------------------------------------------------------------
(* C1 *)

\* the string a logged WRITE / WRITE_CHAR appends
C1_Piece(e) == IF e.op = "vm_write" THEN str(e.top) ELSE <<e.top.val>>
RECURSIVE C1_Concat(_)
C1_Concat(w) ==
    IF Len(w) = 0 THEN <<>>
    ELSE C1_Concat(SubSeq(w, 1, Len(w) - 1)) \o C1_Piece(w[Len(w)])

\* C1: when run returns, it returns the top of the stack EXIT saw and the
\* concatenation, in execution order, of the decimal form of the top for every
\* WRITE executed and of the character with that code point for every
\* WRITE_CHAR executed; a decimal form is the form of an integer.
C1_ReturnsTopAndOutput ==
    RunReturned =>
        /\ fetched.op = "vm_exit"
        /\ ret = <<Top(fetched.stack), C1_Concat(written)>>
        /\ \A i \in 1..Len(written) : IsInt(written[i].top)

\* C1 on integers: the buffer is at every moment the concatenation of what the
\* executed WRITE / WRITE_CHAR appended, and run returns it with the top.
C1_OnIntegers ==
    /\ vm_output = C1_Concat(written)
    /\ RunReturned => fetched.op = "vm_exit" /\ ret = <<Top(fetched.stack), C1_Concat(written)>>

----------------------------------------------------------------------------
(* C2 *)

\* the operand counts the claim lists
C2_Need ==
    [h \in {"vm_add", "vm_div", "vm_eq", "vm_neq"} |-> 2]
    @@ [h \in {"vm_dup", "vm_pop", "vm_print", "vm_write", "vm_write_char", "vm_jmpz"} |-> 1]

\* C2: an opcode that needs operands, executed on a stack shallower than it
\* needs, makes run raise VMStackFail with the stack and the output buffer as
\* they were when the instruction was fetched.
C2_StackFailBeforeMutation ==
    (fetched.op \in DOMAIN C2_Need /\ Len(fetched.stack) < C2_Need[fetched.op]) =>
        /\ RunRaised("VMStackFail")
        /\ stack = fetched.stack
        /\ vm_output = fetched.vm_output

\* C2 witness: ADD fetched with one operand on the stack and text already in
\* the buffer
C2_Witness ==
    /\ fetched.op = "vm_add"
    /\ Len(fetched.stack) = 1
    /\ Len(fetched.vm_output) > 0
    /\ RunRaised("VMStackFail")

----------------------------------------------------------------------------
(* C3 *)

\* C3: a handler is dispatched only for a pc inside the program, and a loop
\* iteration that finds the pc anywhere else raises VMSegfault, leaving the
\* engine as it was.
C3_FetchInRangeElseSegfault ==
    /\ fetched.op # "none" =>
           IsInt(fetched.idx) /\ 0 <= fetched.idx.val /\ fetched.idx.val < Len(code)
    /\ (call = "done" /\ fetched.op = "none") =>
           /\ exc = "VMSegfault"
           /\ pc = fetched.idx /\ stack = fetched.stack /\ vm_output = fetched.vm_output

\* C3 on integers: the same for every iteration that starts with an int pc
C3_OnIntegers ==
    /\ fetched.op # "none" =>
           IsInt(fetched.idx) /\ 0 <= fetched.idx.val /\ fetched.idx.val < Len(code)
    /\ (call = "done" /\ fetched.op = "none" /\ IsInt(fetched.idx)) =>
           /\ exc = "VMSegfault"
           /\ fetched.idx.val < 0 \/ fetched.idx.val >= Len(code)
           /\ pc = fetched.idx /\ stack = fetched.stack /\ vm_output = fetched.vm_output

----------------------------------------------------------------------------
(* C4 *)

\* C4: run returns only with a value on the stack, and that value is the one
\* it returns; EXIT executed on an empty stack makes run raise VMStackFail.
C4_NoReturnOnEmptyStack ==
    /\ RunReturned => Len(stack) >= 1 /\ ret[1] = Top(stack)
    /\ (fetched.op = "vm_exit" /\ Len(fetched.stack) = 0) => RunRaised("VMStackFail")

\* C4 witness: EXIT executed on an empty stack
C4_Witness ==
    /\ fetched.op = "vm_exit"
    /\ Len(fetched.stack) = 0
    /\ RunRaised("VMStackFail")

----------------------------------------------------------------------------
(* C5 *)

\* q is b divided by a, rounded toward negative infinity
C5_IsFloor(q, b, a) ==
    IF a > 0 THEN q * a <= b /\ b < (q + 1) * a
    ELSE q * a >= b /\ b > (q + 1) * a

\* C5: DIV on a stack of depth >= 2 with top a and next b raises DivByZero when
\* a is 0, and otherwise replaces the two by floor(b / a) and goes on; program2
\* of main.py ends in DivByZero.
C5_DivFloorsOrDivByZero ==
    /\ Ran("vm_div", 2) =>
         LET a == Top(fetched.stack)
             b == Top(Pop(fetched.stack))
             rest == Pop(Pop(fetched.stack))
         IN  IF a = IntV(0) THEN RunRaised("DivByZero")
             ELSE /\ call = "running"
                  /\ Len(stack) = Len(fetched.stack) - 1
                  /\ Pop(stack) = rest
                  /\ IsInt(a) /\ IsInt(b) /\ IsInt(Top(stack))
                  /\ C5_IsFloor(Top(stack).val, b.val, a.val)
    /\ (text = program2 /\ call = "done" /\ run_calls = 1) => exc = "DivByZero"

\* C5 on integers
C5_OnIntegers ==
    RanOnInts("vm_div", 2) =>
         LET a == Top(fetched.stack)
             b == Top(Pop(fetched.stack))
             rest == Pop(Pop(fetched.stack))
         IN  IF a = IntV(0) THEN RunRaised("DivByZero")
             ELSE /\ call = "running"
                  /\ Len(stack) = Len(fetched.stack) - 1
                  /\ Pop(stack) = rest
                  /\ IsInt(Top(stack))
                  /\ C5_IsFloor(Top(stack).val, b.val, a.val)

----------------------------------------------------------------------------
(* C6 *)

\* C6: JMPZ n fetched at index i on a non-empty stack pops the top and sets
\* pc to n when the top is zero, and leaves the stack alone with pc = i + 1
\* when it is not; either way the output buffer is untouched and run goes on.
C6_JmpzPopsOnlyWhenTaken ==
    Ran("vm_jmpz", 1) =>
        /\ Top(fetched.stack) = IntV(0) =>
               stack = Pop(fetched.stack) /\ pc = fetched.arg
        /\ Top(fetched.stack) # IntV(0) =>
               stack = fetched.stack /\ pc = IntV(fetched.idx.val + 1)
        /\ vm_output = fetched.vm_output
        /\ call = "running"

\* C6 on integers
C6_OnIntegers ==
    RanOnInts("vm_jmpz", 1) =>
        /\ Top(fetched.stack) = IntV(0) =>
               stack = Pop(fetched.stack) /\ pc = fetched.arg
        /\ Top(fetched.stack) # IntV(0) =>
               stack = fetched.stack /\ pc = IntV(fetched.idx.val + 1)
        /\ vm_output = fetched.vm_output
        /\ call = "running"

----------------------------------------------------------------------------
(* C7 *)

\* the engine state the last iteration's handler was called in, with the two
\* topmost stack elements swapped
C7_Swapped ==
    [pc |-> IntV(fetched.idx.val + 1),
     stack |-> Pop(Pop(fetched.stack)) \o <<Top(fetched.stack), Top(Pop(fetched.stack))>>,
     vm_output |-> fetched.vm_output, stdout |-> fetched.stdout,
     status |-> TRUE, exc |-> "none"]

\* C7: ADD on a stack of depth >= 2 replaces the two topmost elements a and b
\* by a + b and leaves the rest alone, gives the same stack with a and b
\* swapped, and makes 1337 of 432 and 905 in program of main.py.
C7_AddSumsTopTwo ==
    Ran("vm_add", 2) =>
        LET a == Top(fetched.stack)
            b == Top(Pop(fetched.stack))
            rest == Pop(Pop(fetched.stack))
        IN  /\ IsInt(a) /\ IsInt(b)
            /\ stack = Append(rest, IntV(a.val + b.val))
            /\ vm_add(C7_Swapped, fetched.arg).stack = stack
            /\ call = "running"
            /\ text = program => Top(stack) = IntV(1337)

\* C7 on integers
C7_OnIntegers ==
    RanOnInts("vm_add", 2) =>
        LET a == Top(fetched.stack)
            b == Top(Pop(fetched.stack))
            rest == Pop(Pop(fetched.stack))
        IN  /\ stack = Append(rest, IntV(a.val + b.val))
            /\ vm_add(C7_Swapped, fetched.arg).stack = stack
            /\ call = "running"
            /\ text = program => Top(stack) = IntV(1337)

----------------------------------------------------------------------------
(* C8 *)

\* a line with 3 or more tokens, or whose first token is no registered mnemonic
C8_Faulty(line) == Len(Words(line)) >= 3 \/ Words(line)[1] \notin Mnemonics

\* C8: assemble raises InvalidInstruction and returns nothing when a non-empty
\* line is faulty; when none is, it returns one (op id, argument) pair per
\* non-empty line, in order, the argument present exactly when the line has a
\* second token.
C8_AssembleRejectsOrTranslates ==
    asm_calls >= 1 =>
        IF \E i \in 1..Len(TextLines) : C8_Faulty(TextLines[i])
        THEN asm = Raised("InvalidInstruction")
        ELSE /\ asm.exc = "none"
             /\ Len(asm.val) = Len(TextLines)
             /\ \A i \in 1..Len(TextLines) :
                  /\ asm.val[i][1] = instruction_ids[Words(TextLines[i])[1]]
                  /\ (asm.val[i][2] # None) <=> (Len(Words(TextLines[i])) = 2)

\* C8 where every argument token is an integer literal
C8_OnIntegers ==
    (asm_calls >= 1 /\ \A i \in 1..Len(TextLines) :
                         Len(Words(TextLines[i])) = 2 => int_ok(Words(TextLines[i])[2])) =>
        IF \E i \in 1..Len(TextLines) : C8_Faulty(TextLines[i])
        THEN asm = Raised("InvalidInstruction")
        ELSE /\ asm.exc = "none"
             /\ Len(asm.val) = Len(TextLines)
             /\ \A i \in 1..Len(TextLines) :
                  /\ asm.val[i][1] = instruction_ids[Words(TextLines[i])[1]]
                  /\ (asm.val[i][2] # None) <=> (Len(Words(TextLines[i])) = 2)

----------------------------------------------------------------------------
(* C9 *)

\* C9: assemble raises InvalidInstruction when a line's second token is there
\* and is no integer literal.
C9_BadArgumentIsInvalidInstruction ==
    (asm_calls >= 1 /\ \E i \in 1..Len(TextLines) :
                         Len(Words(TextLines[i])) = 2 /\ ~int_ok(Words(TextLines[i])[2])) =>
        asm = Raised("InvalidInstruction")

----------------------------------------------------------------------------
(* C10 *)

\* C10: an assemble call, whether it returns or raises, leaves pc, the stack,
\* the output buffer and both registry mappings as they were, and a second
\* call with the same text produces what the first produced.
C10_AssembleIsPure ==
    [][asm_calls' # asm_calls =>
          /\ <<pc, stack, vm_output, instruction_ids, instruction_actions>>'
               = <<pc, stack, vm_output, instruction_ids, instruction_actions>>
          /\ (asm_calls >= 1 /\ text' = text) => asm' = asm]_vars

\* C10 witness: the text assembled a second time, successfully, on an engine
\* that has run and holds a stack and output
C10_Witness ==
    /\ asm_calls = 2
    /\ asm.exc = "none" /\ Len(asm.val) > 0
    /\ call = "done"
    /\ Len(stack) > 0 /\ Len(vm_output) > 0 /\ pc # IntV(0)

----------------------------------------------------------------------------
(* C11 *)

\* a line that is empty once its whitespace is trimmed
C11_IsBlank(line) == \A i \in 1..Len(line) : line[i] = SP
\* the text t without its blank lines
C11_Stripped(t) == join(SelectSeq(split(t, NL), LAMBDA l : ~C11_IsBlank(l)), NL)
\* the text t without its empty lines
C11_Compacted(t) == join(SelectSeq(split(t, NL), LAMBDA l : Len(l) > 0), NL)

\* C11: assemble produces for a text what it produces for the same text with
\* every line removed that is empty after trimming whitespace (a line of
\* spaces included): such a line gives no instruction and no error.
C11_BlankLinesSkipped ==
    asm_calls >= 1 => asm = assemble(instruction_ids, C11_Stripped(text))

\* C11 for the lines that are empty as they stand
C11_OnEmptyLines ==
    asm_calls >= 1 => asm = assemble(instruction_ids, C11_Compacted(text))

----------------------------------------------------------------------------
(* C12 *)

\* C12: while and after run executes a program that assemble returned, pc is
\* an integer and so is every element of the operand stack.
C12_StackAndPcAreIntegers ==
    call \in {"running", "done"} =>
        /\ IsInt(pc)
        /\ \A i \in 1..Len(stack) : IsInt(stack[i])

\* C12 for the first run of a program whose LOAD_CONST, JMP and JMPZ all have
\* their argument
C12_OnArguments ==
    (/\ call \in {"running", "done"}
     /\ run_calls = 1
     /\ \A i \in 1..Len(code) :
          instruction_actions[code[i][1]] \in {"vm_load_const", "vm_jmp", "vm_jmpz"}
              => IsInt(code[i][2])) =>
        /\ IsInt(pc)
        /\ \A i \in 1..Len(stack) : IsInt(stack[i])

----------------------------------------------------------------------------
(* C13 *)

\* C13: the registry holds the 13 built-in mnemonics with the ids 0..12 in
\* registration order, no two names share an id, the ids with a handler are
\* the ids with a name, neither mapping ever differs from what construction
\* made, every op id of a list assemble returned has a handler, and run never
\* fails looking a handler up.
C13_RegistryFixedAndTotal ==
    /\ DOMAIN instruction_ids = Mnemonics
    /\ Cardinality(DOMAIN instruction_ids) = 13
    /\ \A i \in 1..Len(Registrations) :
         /\ instruction_ids[Registrations[i][1]] = i - 1
         /\ instruction_actions[i - 1] = Registrations[i][2]
    /\ \A m, n \in DOMAIN instruction_ids :
         instruction_ids[m] = instruction_ids[n] => m = n
    /\ DOMAIN instruction_actions = {instruction_ids[n] : n \in DOMAIN instruction_ids}
    /\ next_op_id = 13
    /\ instruction_ids = create_vm.ids
    /\ instruction_actions = create_vm.actions
    /\ asm.exc = "none" => \A i \in 1..Len(asm.val) : asm.val[i][1] \in DOMAIN instruction_actions
    /\ \A i \in 1..Len(code) : code[i][1] \in DOMAIN instruction_actions
    /\ exc # "KeyError"

\* C13 witness: a three-instruction program assembled twice and run to its end
C13_Witness ==
    /\ call = "done"
    /\ asm_calls = 2
    /\ Len(code) = 3
    /\ steps = 3
    /\ fetched.op # "none"

----------------------------------------------------------------------------
(* C14 *)

\* C14: run returns only from an EXIT, and an EXIT that does not fault makes
\* it return; a handler other than EXIT ends the run only by raising; and
\* once a run call has returned or raised, no loop iteration follows until
\* run is called again.
C14_OnlyExitStops ==
    [][/\ RunReturned' => fetched'.op = "vm_exit"
       /\ (fetched'.op = "vm_exit" /\ Len(fetched'.stack) >= 1) => RunReturned'
       /\ (fetched'.op \notin {"vm_exit", "none"} /\ call' = "done") => exc' # "none"
       /\ (fetched'.op \notin {"vm_exit", "none"} /\ exc' = "none") => call' = "running"
       /\ (call = "done" /\ run_calls' = run_calls) =>
              UNCHANGED <<pc, stack, vm_output, stdout, steps, fetched, call, exc, ret>>]_vars

\* C14 witness: run has returned from an EXIT that was not the program's last
\* instruction, after other handlers had run
C14_Witness ==
    /\ RunReturned
    /\ fetched.op = "vm_exit"
    /\ steps >= 3
    /\ fetched.idx.val + 1 < Len(code)

----------------------------------------------------------------------------
(* C15 *)

\* C15: the handlers of EXIT, LOAD_CONST and JMP never raise VMStackFail,
\* whatever the depth of the stack, and EXIT always stops the loop.
C15_ExitNeverStackFails ==
    fetched.op \in {"vm_exit", "vm_load_const", "vm_jmp"} =>
        /\ exc # "VMStackFail"
        /\ fetched.op = "vm_exit" => call = "done"

\* C15 as the code has it: EXIT needs one element on the stack; on an empty
\* stack it raises VMStackFail and leaves stack and output alone, on any other
\* it stops the loop and run returns; LOAD_CONST and JMP raise nothing at any
\* depth and the loop goes on.
C15_ExitNeedsOneOperand ==
    /\ fetched.op = "vm_exit" =>
           /\ stack = fetched.stack
           /\ vm_output = fetched.vm_output
           /\ pc = IntV(fetched.idx.val + 1)
           /\ IF Len(fetched.stack) = 0 THEN RunRaised("VMStackFail") ELSE RunReturned
    /\ fetched.op \in {"vm_load_const", "vm_jmp"} =>
           /\ call = "running"
           /\ exc = "none"

\* C15 witness: EXIT is the fourth instruction executed, after a WRITE, and
\* finds the stack emptied again
C15_Witness ==
    /\ fetched.op = "vm_exit"
    /\ Len(fetched.stack) = 0
    /\ steps = 4
    /\ Len(written) > 0
    /\ RunRaised("VMStackFail")

----------------------------------------------------------------------------
(* C16 *)

\* what the claim has the handler h append to the buffer for the top v
C16_Piece(h, v) ==
    IF h = "vm_write" THEN str(v)
    ELSE IF h = "vm_write_char" THEN <<v.val>>
    ELSE <<>>

\* C16: PRINT, WRITE and WRITE_CHAR on a non-empty stack leave the stack as it
\* was and pc at the fetched index + 1; WRITE appends the decimal form of the
\* top (an integer), WRITE_CHAR the character with that code point, PRINT
\* nothing; the loop goes on.
C16_OutputLeavesStack ==
    \A h \in {"vm_print", "vm_write", "vm_write_char"} :
        Ran(h, 1) =>
            /\ IsInt(Top(fetched.stack))
            /\ stack = fetched.stack
            /\ pc = IntV(fetched.idx.val + 1)
            /\ vm_output = fetched.vm_output \o C16_Piece(h, Top(fetched.stack))
            /\ call = "running"

\* C16 where the top is an integer and, for WRITE_CHAR, a code point
C16_OnCodePoints ==
    /\ \A h \in {"vm_print", "vm_write", "vm_write_char"} :
        (/\ Ran(h, 1)
         /\ IsInt(Top(fetched.stack))
         /\ h = "vm_write_char" =>
                0 <= Top(fetched.stack).val /\ Top(fetched.stack).val <= MAX_CODE_POINT) =>
            /\ stack = fetched.stack
            /\ pc = IntV(fetched.idx.val + 1)
            /\ vm_output = fetched.vm_output \o C16_Piece(h, Top(fetched.stack))
            /\ call = "running"
    /\ (text = program /\ RunReturned /\ run_calls = 1) => ret[2] = <<65>>

----------------------------------------------------------------------------
(* C17 *)

\* C17: EQ and NEQ on a stack of depth >= 2 replace the two topmost elements
\* a and b by one value: EQ by 1 when a = b and by 0 when not, NEQ by 0 when
\* a = b and by 1 when not, which is 1 minus what EQ gives for the same pair;
\* the rest of the stack is as it was and the loop goes on.
C17_EqNeqPushOneBit ==
    \A h \in {"vm_eq", "vm_neq"} :
        Ran(h, 2) =>
            LET a == Top(fetched.stack)
                b == Top(Pop(fetched.stack))
                rest == Pop(Pop(fetched.stack))
                bit == IF (h = "vm_eq") <=> (a = b) THEN 1 ELSE 0
            IN  /\ stack = Append(rest, IntV(bit))
                /\ Top(vm_neq(Before, fetched.arg).stack).val
                       = 1 - Top(vm_eq(Before, fetched.arg).stack).val
                /\ vm_output = fetched.vm_output
                /\ call = "running"

\* C17 witness: NEQ on two different values with a third element below them
C17_Witness ==
    /\ Ran("vm_neq", 3)
    /\ Top(fetched.stack) # Top(Pop(fetched.stack))
    /\ stack = Append(Pop(Pop(fetched.stack)), IntV(1))
    /\ call = "running"

----------------------------------------------------------------------------
(* C18 *)

\* s is a prefix of t
C18_IsPrefix(s, t) == Len(s) <= Len(t) /\ SubSeq(t, 1, Len(s)) = s

\* C18: a second run call starts with the pc, stack and output buffer the
\* first one left, pc being the index just past the EXIT when that one
\* returned; what it writes comes after the first one's output and what it
\* returns carries it; and it raises VMSegfault before executing anything when
\* the pc it starts with is not an index of its program.
C18_RunDoesNotReset ==
    /\ (run_calls = 1 /\ RunReturned) => pc = IntV(fetched.idx.val + 1)
    /\ run_calls = 2 =>
           /\ (call = "running" /\ steps = 0) =>
                  pc = left.pc /\ stack = left.stack /\ vm_output = left.vm_output
           /\ C18_IsPrefix(left.vm_output, vm_output)
           /\ RunReturned => C18_IsPrefix(left.vm_output, ret[2])
           /\ (call = "done" /\ ~(IsInt(left.pc) /\ 0 <= left.pc.val /\ left.pc.val < Len(code))) =>
                  /\ RunRaised("VMSegfault")
                  /\ steps = 0
                  /\ stack = left.stack /\ vm_output = left.vm_output

\* C18 where the first run left an integer in pc
C18_OnIntegers ==
    /\ (run_calls = 1 /\ RunReturned) => pc = IntV(fetched.idx.val + 1)
    /\ (run_calls = 2 /\ IsInt(left.pc)) =>
           /\ (call = "running" /\ steps = 0) =>
                  pc = left.pc /\ stack = left.stack /\ vm_output = left.vm_output
           /\ C18_IsPrefix(left.vm_output, vm_output)
           /\ RunReturned => C18_IsPrefix(left.vm_output, ret[2])
           /\ (call = "done" /\ ~(0 <= left.pc.val /\ left.pc.val < Len(code))) =>
                  /\ RunRaised("VMSegfault")
                  /\ steps = 0
                  /\ stack = left.stack /\ vm_output = left.vm_output

\* a second run that went on where the first had stopped and returned more
\* output than the first had written
C18_SecondRunGoesOn ==
    /\ run_calls = 2
    /\ RunReturned
    /\ Len(left.vm_output) > 0
    /\ Len(ret[2]) > Len(left.vm_output)
    /\ left.pc # IntV(0)

----------------------------------------------------------------------------
(* C19 *)

\* C19: when DIV finds a zero divisor, run raises DivByZero with the stack two
\* elements shorter than DIV found it, the output buffer as it was and pc at
\* the index of the DIV + 1; nothing else raises DivByZero; and a run that
\* raised VMStackFail has the stack as the failing instruction found it.
C19_DivByZeroKeepsThePops ==
    /\ (Ran("vm_div", 2) /\ Top(fetched.stack) = IntV(0)) =>
           /\ RunRaised("DivByZero")
           /\ stack = Pop(Pop(fetched.stack))
           /\ Len(stack) = Len(fetched.stack) - 2
           /\ vm_output = fetched.vm_output
           /\ pc = IntV(fetched.idx.val + 1)
    /\ RunRaised("DivByZero") =>
           Ran("vm_div", 2) /\ Top(fetched.stack) = IntV(0)
    /\ RunRaised("VMStackFail") => stack = fetched.stack

\* C19 witness: DIV by zero with a third element below the operands
C19_Witness ==
    /\ Ran("vm_div", 3)
    /\ Top(fetched.stack) = IntV(0)
    /\ RunRaised("DivByZero")
    /\ Len(stack) = Len(fetched.stack) - 2
    /\ Len(stack) >= 1

----------------------------------------------------------------------------
(* C20 *)

\* every JMP / JMPZ of the program c has a target beyond its own index
C20_ForwardOnly(c) ==
    \A i \in 1..Len(c) :
        instruction_actions[c[i][1]] \in {"vm_jmp", "vm_jmpz"} =>
            IsInt(c[i][2]) /\ c[i][2].val > i - 1

\* the one-instruction program JMP 0
C20_SelfJump == WithArg(JMP, <<"0">>)

\* C20: in a program whose jumps all go forward every instruction executed
\* moves pc up, so that a run call executes at most len(program) instructions
\* and then ends; the program JMP 0 is always at its only instruction with
\* the engine as it was, never returning and never raising.
C20_ForwardJumpsTerminate ==
    [][/\ (C20_ForwardOnly(code') /\ steps' = steps + 1) =>
              /\ pc'.val > pc.val
              /\ steps' <= Len(code')
              /\ steps' < MaxSteps
       /\ (text' = C20_SelfJump /\ call' \in {"running", "done"}) =>
              /\ call' = "running"
              /\ exc' = "none"
              /\ pc_check(pc', code') = "none"
              /\ instruction_actions[Fetch(pc', code')[1]] = "vm_jmp"
              /\ <<pc', stack', vm_output'>> = <<IntV(0), <<>>, <<>> >>]_vars

\* C20 witness: a forward jump over an instruction has been taken in a program
\* whose jumps all go forward, and the run has ended beyond it
C20_Witness ==
    /\ C20_ForwardOnly(code)
    /\ \E i \in 1..Len(code) :
         /\ instruction_actions[code[i][1]] = "vm_jmp"
         /\ code[i][2].val > i
         /\ i < Len(code)
    /\ call = "done"
    /\ steps >= 1
    /\ run_calls = 1
    /\ pc.val >= Len(code)

\* the program JMP 0 after as many iterations as the model follows
C20_SelfJumpStillRunning ==
    /\ text = C20_SelfJump
    /\ call = "running"
    /\ steps = MaxSteps


====
